---- MODULE Spec2Model ----
(***************************************************************************)
(* Telco customer churn: the training pipeline (scripts/run_pipeline.py),  *)
(* the training-mode encoder (src/features/build_features.py) and the      *)
(* serving-mode encoder and predictor (src/serving/inference.py).          *)
(*                                                                         *)
(* A data frame is a record [cols, rows, data]: the ordered column names,  *)
(* the number of rows, and for every column name its sequence of cells.    *)
(* A cell is a record [t, i, s] carrying its type: an integer, a boolean   *)
(* (i = 1 for True, 0 for False), a string, or the missing value NaN.      *)
(***************************************************************************)
EXTENDS Integers, Sequences, FiniteSets, TLC

VARIABLES
    pc,             \* position of main() in scripts/run_pipeline.py
    is_valid,       \* validate_telco_data's verdict
    failed,         \* validate_telco_data's list of failed expectations
    tracking,       \* what the run has written to the tracking store, in order
    df,             \* the frame main() holds after preprocess_data
    df_enc,         \* the frame build_features returned
    target,         \* args.target
    feature_file,   \* the persisted feature schema (feature_columns.txt)
    fitted,         \* the columns the classifier was fitted on
    y_train,        \* the target values of the training split
    scale_pos_weight, \* the class weight handed to the classifier, num / den
    FEATURE_COLS,   \* serving: the loaded feature schema
    model,          \* serving: the loaded model
    input_dict,     \* serving: the raw record of the last predict call
    served,         \* serving: the frame _serve_transform returned
    preds,          \* serving: the raw output of model.predict
    result,         \* serving: what predict returned
    series,         \* the series handed to _map_binary_series
    mapped,         \* what _map_binary_series returned for it
    df_again,       \* what build_features returned for an encoded frame
    calls           \* serving: the predict calls in progress, each with its locals

vars == <<pc, is_valid, failed, tracking, df, df_enc, target, feature_file,
          fitted, y_train, scale_pos_weight, FEATURE_COLS, model, input_dict,
          served, preds, result, series, mapped, df_again, calls>>

pipeVars == <<pc, is_valid, failed, tracking, df, df_enc, target,
              feature_file, fitted, y_train, scale_pos_weight>>
serveVars == <<FEATURE_COLS, model, input_dict, served, preds, result>>
binVars == <<series, mapped>>
encVars == <<df_again>>
callVars == <<calls>>

(***************************************************************************)
(* Bounds of the model.                                                    *)
(***************************************************************************)
MaxRows == 3        \* rows of a training frame, length of a series
MaxSchema == 2      \* length of a feature schema drawn freely
MaxTargets == 7     \* rows of an encoded frame handed to the split
NumCalls == 2       \* predict calls in progress at the same time

(***************************************************************************)
(* Cells.                                                                  *)
(***************************************************************************)
I(n) == [t |-> "int", i |-> n, s |-> ""]
B(b) == [t |-> "bool", i |-> IF b THEN 1 ELSE 0, s |-> ""]
S(x) == [t |-> "str", i |-> 0, s |-> x]
NaN == [t |-> "nan", i |-> 0, s |-> ""]

IsNa(c) == c.t = "nan"

(***************************************************************************)
(* Python compares strings by code point, character by character.  Ord     *)
(* gives the code points of every string the model uses.                   *)
(***************************************************************************)
Ord(x) ==
        CASE x = "A" -> <<65>>
          [] x = "B" -> <<66>>
          [] x = "C" -> <<67>>
          [] x = "D" -> <<68>>
          [] x = "No" -> <<78, 111>>
          [] x = "Yes" -> <<89, 101, 115>>
          [] x = "Maybe" -> <<77, 97, 121, 98, 101>>
          [] x = "Male" -> <<77, 97, 108, 101>>
          [] x = "Female" -> <<70, 101, 109, 97, 108, 101>>
          [] x = "nan" -> <<110, 97, 110>>
          [] x = "DSL" -> <<68, 83, 76>>
          [] x = "Fiber optic" -> <<70, 105, 98, 101, 114, 32, 111, 112, 116, 105, 99>>
          [] x = "0" -> <<48>>
          [] x = "1" -> <<49>>
          [] x = "2" -> <<50>>
          [] x = "True" -> <<84, 114, 117, 101>>
          [] x = "False" -> <<70, 97, 108, 115, 101>>

RECURSIVE LexLess(_, _)
LexLess(a, b) ==
    IF b = <<>> THEN FALSE
    ELSE IF a = <<>> THEN TRUE
    ELSE IF Head(a) # Head(b) THEN Head(a) < Head(b)
    ELSE LexLess(Tail(a), Tail(b))

StrLess(x, y) == LexLess(Ord(x), Ord(y))

\* sorted(vals) on a list of distinct strings
RECURSIVE SortedOf(_)
SortedOf(set) ==
    IF set = {} THEN <<>>
    ELSE LET m == CHOOSE x \in set : \A y \in set \ {x} : StrLess(x, y)
         IN <<m>> \o SortedOf(set \ {m})

Range(q) == {q[k] : k \in 1..Len(q)}

sorted(vals) == SortedOf(Range(vals))

(***************************************************************************)
(* pandas Series operations.                                               *)
(***************************************************************************)
dropna(s) == SelectSeq(s, LAMBDA c : ~IsNa(c))

\* Series.unique(): the distinct cells in order of first appearance
RECURSIVE unique(_)
unique(s) ==
    IF s = <<>> THEN <<>>
    ELSE LET init == SubSeq(s, 1, Len(s) - 1)
             last == s[Len(s)]
         IN IF last \in Range(init) THEN unique(init)
            ELSE unique(init) \o <<last>>

nunique(s) == Cardinality(Range(dropna(s)))

IntStr(n) ==
    CASE n = 0 -> "0" [] n = 1 -> "1" [] n = 2 -> "2" [] n = 3 -> "3"
      [] n = 4 -> "4" [] OTHER -> "5"

\* Series.astype(str) on an object series: str(x) of every cell, NaN -> "nan"
StrOf(c) ==
    CASE c.t = "str" -> c.s
      [] c.t = "nan" -> "nan"
      [] c.t = "bool" -> IF c.i = 1 THEN "True" ELSE "False"
      [] OTHER -> IntStr(c.i)

astype_str(s) == [k \in 1..Len(s) |-> S(StrOf(s[k]))]

\* Series.map(mapping): a cell whose value is no key of the mapping becomes NaN
map(s, mapping) ==
    [k \in 1..Len(s) |->
        IF s[k].t = "str" /\ s[k].s \in DOMAIN mapping
        THEN I(mapping[s[k].s]) ELSE NaN]

\* Series.fillna(0)
fillna0(s) == [k \in 1..Len(s) |-> IF IsNa(s[k]) THEN I(0) ELSE s[k]]

\* astype(int) of a boolean series
bool_to_int(s) == [k \in 1..Len(s) |-> IF s[k].t = "bool" THEN I(s[k].i) ELSE s[k]]

\* the dtype pandas gives a column holding these cells
dtype(s) ==
    IF \E k \in 1..Len(s) : s[k].t = "str" THEN "object"
    ELSE IF s # <<>> /\ \A k \in 1..Len(s) : s[k].t = "bool" THEN "bool"
    ELSE IF \E k \in 1..Len(s) : s[k].t = "nan" THEN "float64"
    ELSE "int64"

\* pd.api.types.is_integer_dtype: int64, or the nullable Int64 that map leaves
is_integer_dtype(s) == \A k \in 1..Len(s) : s[k].t \in {"int", "nan"}

(***************************************************************************)
(* pandas DataFrame operations.                                            *)
(***************************************************************************)
Frame(cols, rows, data) == [cols |-> cols, rows |-> rows, data |-> data]

select_dtypes(f, kinds) == SelectSeq(f.cols, LAMBDA c : dtype(f.data[c]) \in kinds)

\* df[c] = s
SetCol(f, c, s) == Frame(f.cols, f.rows, [x \in DOMAIN f.data |-> IF x = c THEN s ELSE f.data[x]])

\* df.drop(columns=[c])
drop(f, c) ==
    Frame(SelectSeq(f.cols, LAMBDA x : x # c), f.rows,
          [x \in DOMAIN f.data \ {c} |-> f.data[x]])

\* the levels with the first one kept
Levels_keep_first(s, drop_first) == SortedOf({c.s : c \in Range(dropna(s))})

\* the levels pd.get_dummies makes indicators for: the sorted distinct
\* non-missing values, without the first when drop_first
Levels(s, drop_first) ==
    LET lv == SortedOf({c.s : c \in Range(dropna(s))})
    IN IF drop_first /\ lv # <<>> THEN Tail(lv) ELSE lv

DummyName(c, v) == c \o "_" \o v

\* the indicator columns of column c, in level order
DummyCols(f, c, drop_first) ==
    LET lv == Levels(f.data[c], drop_first)
    IN [k \in 1..Len(lv) |-> DummyName(c, lv[k])]

RECURSIVE Flatten(_)
Flatten(qq) == IF qq = <<>> THEN <<>> ELSE Head(qq) \o Flatten(Tail(qq))

\* an encoding that puts the indicators of a column where the column was
get_dummies_in_place(f, cols, drop_first) ==
    LET order == Flatten([k \in 1..Len(f.cols) |->
                    IF f.cols[k] \in Range(cols)
                    THEN DummyCols(f, f.cols[k], drop_first)
                    ELSE <<f.cols[k]>>])
        MadeCell(c, v) == [r \in 1..f.rows |->
                             B(f.data[c][r].t = "str" /\ f.data[c][r].s = v)]
    IN Frame(order, f.rows,
             [x \in Range(order) |->
                 IF x \in Range(f.cols) \ Range(cols) THEN f.data[x]
                 ELSE LET c == CHOOSE c \in Range(cols) :
                                 \E v \in Range(Levels(f.data[c], drop_first)) :
                                     x = DummyName(c, v)
                          v == CHOOSE v \in Range(Levels(f.data[c], drop_first)) :
                                 x = DummyName(c, v)
                      IN MadeCell(c, v)])

\* pd.get_dummies(df, columns=cols, drop_first=True): the columns not encoded
\* keep their order, the indicators of each encoded column follow them
get_dummies(f, cols, drop_first) ==
    LET kept == SelectSeq(f.cols, LAMBDA x : x \notin Range(cols))
        made == Flatten([k \in 1..Len(cols) |-> DummyCols(f, cols[k], drop_first)])
        MadeCell(c, v) == [r \in 1..f.rows |->
                             B(f.data[c][r].t = "str" /\ f.data[c][r].s = v)]
        newdata == [x \in Range(kept) \cup Range(made) |->
                      IF x \in Range(kept) THEN f.data[x]
                      ELSE LET c == CHOOSE c \in Range(cols) :
                                      \E v \in Range(Levels(f.data[c], drop_first)) :
                                          x = DummyName(c, v)
                               v == CHOOSE v \in Range(Levels(f.data[c], drop_first)) :
                                      x = DummyName(c, v)
                           IN MadeCell(c, v)]
    IN Frame(kept \o made, f.rows, newdata)

\* a reindex that selects the schema's columns in the frame's own order
reindex_frame_order(f, schema, fill) ==
    LET have == SelectSeq(f.cols, LAMBDA x : x \in Range(schema))
        lack == SelectSeq(schema, LAMBDA x : x \notin Range(f.cols))
    IN Frame(have \o lack, f.rows,
             [x \in Range(schema) |->
                 IF x \in Range(f.cols) THEN f.data[x]
                 ELSE [r \in 1..f.rows |-> fill]])

\* a reindex that adds no column the frame lacks
reindex_no_fill(f, schema, fill) ==
    LET have == SelectSeq(schema, LAMBDA x : x \in Range(f.cols))
    IN Frame(have, f.rows, [x \in Range(have) |-> f.data[x]])

\* a reindex without fill_value: the columns the frame lacks are NaN
reindex_nan_fill(f, schema, fill) ==
    Frame(schema, f.rows,
          [x \in Range(schema) |->
              IF x \in Range(f.cols) THEN f.data[x]
              ELSE [r \in 1..f.rows |-> NaN]])

\* df.reindex(columns=schema, fill_value=fill)
reindex(f, schema, fill) ==
    Frame(schema, f.rows,
          [x \in Range(schema) |->
              IF x \in Range(f.cols) THEN f.data[x]
              ELSE [r \in 1..f.rows |-> fill]])

(***************************************************************************)
(* src/features/build_features.py                                          *)
(***************************************************************************)
YesNo == ("No" :> 0) @@ ("Yes" :> 1)
FemaleMale == ("Female" :> 0) @@ ("Male" :> 1)

\* the generic branch without the sort: the values in order of appearance
GenericMapping_unsorted(vals) == (vals[1] :> 0) @@ (vals[2] :> 1)

\* the generic branch's mapping: sorted_vals[0] -> 0, sorted_vals[1] -> 1
GenericMapping(vals) ==
    LET sorted_vals == sorted(vals)
    IN (sorted_vals[1] :> 0) @@ (sorted_vals[2] :> 1)

_map_binary_series(s) ==
    LET u == unique(dropna(s))
        vals == [k \in 1..Len(u) |-> StrOf(u[k])]
        valset == Range(vals)
    IN IF valset = {"Yes", "No"} THEN map(s, YesNo)
       ELSE IF valset = {"Male", "Female"} THEN map(s, FemaleMale)
       ELSE IF Len(vals) = 2 THEN map(astype_str(s), GenericMapping(vals))
       ELSE s

\* the candidate columns without the dtype filter: every non-target column
obj_cols_of_any_dtype(f, target_col) ==
    SelectSeq(f.cols, LAMBDA c : c # target_col)

\* step 1: obj_cols, the object columns other than the target
obj_cols_of(f, target_col) ==
    SelectSeq(select_dtypes(f, {"object"}), LAMBDA c : c # target_col)

binary_cols_of(f, target_col) ==
    SelectSeq(obj_cols_of(f, target_col), LAMBDA c : nunique(f.data[c]) = 2)

multi_cols_of(f, target_col) ==
    SelectSeq(obj_cols_of(f, target_col), LAMBDA c : nunique(f.data[c]) > 2)

\* step 3: for c in binary_cols: df[c] = _map_binary_series(df[c].astype(str))
RECURSIVE EncodeBinary(_, _)
EncodeBinary(f, cols) ==
    IF cols = <<>> THEN f
    ELSE EncodeBinary(
            SetCol(f, Head(cols), _map_binary_series(astype_str(f.data[Head(cols)]))),
            Tail(cols))

\* steps 4 and 63-66 of the serving side: boolean columns to int
RECURSIVE BoolsToInt(_, _)
BoolsToInt(f, cols) ==
    IF cols = <<>> THEN f
    ELSE BoolsToInt(SetCol(f, Head(cols), bool_to_int(f.data[Head(cols)])), Tail(cols))

\* step 6: nullable integers of the binary columns to int, NaN filled with 0
RECURSIVE CleanupBinary(_, _)
CleanupBinary(f, cols) ==
    IF cols = <<>> THEN f
    ELSE CleanupBinary(
            IF is_integer_dtype(f.data[Head(cols)])
            THEN SetCol(f, Head(cols), fillna0(f.data[Head(cols)]))
            ELSE f,
            Tail(cols))

build_features(f, target_col) ==
    LET binary_cols == binary_cols_of(f, target_col)
        multi_cols == multi_cols_of(f, target_col)
        f3 == EncodeBinary(f, binary_cols)
        f4 == BoolsToInt(f3, select_dtypes(f3, {"bool"}))
        f5 == IF multi_cols # <<>> THEN get_dummies(f4, multi_cols, TRUE) ELSE f4
    IN CleanupBinary(f5, binary_cols)

(***************************************************************************)
(* src/serving/inference.py                                                *)
(***************************************************************************)
BINARY_MAP ==
    [c \in {"gender", "Partner", "Dependents", "PhoneService", "PaperlessBilling"} |->
        IF c = "gender" THEN FemaleMale ELSE YesNo]

NUMERIC_COLS == <<"tenure", "MonthlyCharges", "TotalCharges">>

\* str.strip() on the strings the model uses
strip(x) == CASE x = "tenure " -> "tenure" [] x = " Yes" -> "Yes" [] OTHER -> x

\* pd.to_numeric(errors="coerce"): text that is no number becomes NaN
to_numeric(s) ==
    [k \in 1..Len(s) |->
        IF s[k].t # "str" THEN s[k]
        ELSE CASE s[k].s = "0" -> I(0) [] s[k].s = "1" -> I(1) [] s[k].s = "2" -> I(2)
               [] OTHER -> NaN]

\* pd.DataFrame([input_dict]): one row, the keys in insertion order
DataFrame1(d) == Frame(d.keys, 1, [k \in Range(d.keys) |-> <<d.val[k]>>])

\* df.columns = df.columns.str.strip()
StripColumns(f) ==
    Frame([k \in 1..Len(f.cols) |-> strip(f.cols[k])], f.rows,
          [x \in {strip(c) : c \in Range(f.cols)} |->
              f.data[CHOOSE c \in Range(f.cols) : strip(c) = x]])

RECURSIVE CoerceNumerics(_, _)
CoerceNumerics(f, cols) ==
    IF cols = <<>> THEN f
    ELSE CoerceNumerics(
            IF Head(cols) \in Range(f.cols)
            THEN SetCol(f, Head(cols), to_numeric(f.data[Head(cols)]))
            ELSE f,
            Tail(cols))

strip_values(s) == [k \in 1..Len(s) |-> S(strip(s[k].s))]

\* the fixed binary mappings, over the frame's columns that BINARY_MAP names
RECURSIVE ApplyBinaryMap(_, _)
ApplyBinaryMap(f, cols) ==
    IF cols = <<>> THEN f
    ELSE ApplyBinaryMap(
            IF Head(cols) \in DOMAIN BINARY_MAP
            THEN SetCol(f, Head(cols),
                        fillna0(map(strip_values(astype_str(f.data[Head(cols)])),
                                    BINARY_MAP[Head(cols)])))
            ELSE f,
            Tail(cols))

_serve_transform(f, schema) ==
    LET f1 == StripColumns(f)
        f2 == CoerceNumerics(f1, NUMERIC_COLS)
        f3 == ApplyBinaryMap(f2, f2.cols)
        obj_cols == select_dtypes(f3, {"object"})
        f4 == IF obj_cols # <<>> THEN get_dummies(f3, obj_cols, TRUE) ELSE f3
        f5 == BoolsToInt(f4, select_dtypes(f4, {"bool"}))
    IN reindex(f5, schema, I(0))

\* the loaded classifier, opaque: one output per row of the frame it is given
RowSum(f, r) ==
    LET RECURSIVE Sum(_)
        Sum(cols) == IF cols = <<>> THEN 0
                     ELSE f.data[Head(cols)][r].i + Sum(Tail(cols))
    IN Sum(f.cols)

model_predict(m, f) ==
    [r \in 1..f.rows |->
        CASE m = "zero" -> 0
          [] m = "one" -> 1
          [] OTHER -> RowSum(f, r) % 2]

\* lines 82-91: a single output is unwrapped and compared with 0
Label_raw(p) == I(p[1])

Label_inverted(p) ==
    IF Len(p) = 1 /\ p[1] = 0 THEN S("Likely to churn") ELSE S("Not likely to churn")

Label(p) ==
    IF Len(p) = 1 /\ p[1] = 0 THEN S("Not likely to churn") ELSE S("Likely to churn")

(***************************************************************************)
(* The inputs the model draws.                                             *)
(***************************************************************************)
EmptyFrame == Frame(<<>>, 0, <<>>)
EmptyDict == [keys |-> <<>>, val |-> <<>>]
NoResult == [t |-> "none", i |-> 0, s |-> ""]

SeqsUpTo(set, n) == UNION {[1..k -> set] : k \in 0..n}

RawColumns == <<"Partner", "tenure", "Contract", "Churn">>

\* the frames preprocess_data may hand to main(): a Yes/No column, a numeric
\* column, a categorical column of up to three levels with missing values,
\* and the 0/1 target
Frames ==
    UNION {
        {Frame(RawColumns, n,
               [c \in Range(RawColumns) |->
                   CASE c = "Partner" ->
                            [r \in 1..n |-> IF r % 2 = first THEN S("Yes") ELSE S("No")]
                     [] c = "Contract" -> k
                     [] c = "tenure" -> [r \in 1..n |-> I(r % 3)]
                     [] OTHER -> [r \in 1..n |-> I(r % 2)]]) :
            first \in {0, 1},
            k \in [1..n -> {S("A"), S("B"), S("C"), NaN}]} :
        n \in 1..MaxRows}

\* the raw record of row r of a frame, without the target
RowRecord(f, r, target_col) ==
    LET keys == SelectSeq(f.cols, LAMBDA c : c # target_col)
    IN [keys |-> keys, val |-> [c \in Range(keys) |-> f.data[c][r]]]

\* the record with field k set to cell v, and with field k left out
With(d, k, v) == [keys |-> d.keys, val |-> [c \in Range(d.keys) |-> IF c = k THEN v ELSE d.val[c]]]
Without(d, k) ==
    [keys |-> SelectSeq(d.keys, LAMBDA c : c # k),
     val |-> [c \in Range(d.keys) \ {k} |-> d.val[c]]]

\* raw records of a request: each field present or not, with known and
\* unknown categorical values, numbers, numeric text and text that is no number
Absent == [t |-> "absent", i |-> 0, s |-> ""]

FieldChoices ==
    [Partner : {Absent, S("No"), S("Yes"), S("Maybe")},
     tenure : {Absent, I(1), S("2"), S("abc")},
     Contract : {Absent, S("A"), S("B"), S("D"), NaN}]

RecordOf(ch) ==
    LET tk == IF ch.tenure = S("2") THEN "tenure " ELSE "tenure"
        keys == SelectSeq(<<"Partner", tk, "Contract">>,
                          LAMBDA c : CASE c = "Partner" -> ch.Partner # Absent
                                       [] c = "Contract" -> ch.Contract # Absent
                                       [] OTHER -> ch.tenure # Absent)
    IN [keys |-> keys,
        val |-> [c \in Range(keys) |->
                    CASE c = "Partner" -> ch.Partner
                      [] c = "Contract" -> ch.Contract
                      [] OTHER -> ch.tenure]]

Records == {RecordOf(ch) : ch \in FieldChoices}

SchemaNames == {"Partner", "tenure", "Contract", "Contract_B", "Contract_D"}

ModelKinds == {"zero", "one", "parity"}

FailedLists == {<<"expect_column_to_exist">>,
                <<"expect_column_values_to_be_in_set", "expect_column_values_to_be_between">>}

Logged(name, text) == [name |-> name, text |-> text]

NoWeight == [num |-> 0, den |-> 0]

(***************************************************************************)
(* The train/test split and the class weight of main().                    *)
(***************************************************************************)
\* args.test_size, in percent
TestSizePct == 20

\* train_test_split: n_test = ceil(test_size * n), n_train = n - n_test
NTest(n) == (n * TestSizePct + 99) \div 100
NTrain(n) == n - NTest(n)

\* the rows train_test_split may give the training split: how many is fixed
\* by test_size; which ones depends on the shuffle and the stratification,
\* so every choice of that many rows is allowed for
TrainSplits(n) == {rows \in SUBSET (1..n) : Cardinality(rows) = NTrain(n)}

\* y.iloc[rows]
Take(s, rows) ==
    LET idx == SelectSeq([k \in 1..Len(s) |-> k], LAMBDA k : k \in rows)
    IN [k \in 1..Len(idx) |-> s[idx[k]]]

\* (s == v).sum()
CountEq(s, v) == Len(SelectSeq(s, LAMBDA c : c.t \in {"int", "bool"} /\ c.i = v))

\* the weight computed over all rows, test rows included
ClassWeight_all_rows(y, rows) == [num |-> CountEq(y, 0), den |-> CountEq(y, 1)]

\* scale_pos_weight = (y_train == 0).sum() / (y_train == 1).sum(), kept as
\* the fraction num / den
ClassWeight(y, rows) ==
    [num |-> CountEq(Take(y, rows), 0), den |-> CountEq(Take(y, rows), 1)]

(***************************************************************************)
(* scripts/run_pipeline.py: main()                                         *)
(***************************************************************************)
Init ==
    /\ pc = "start"
    /\ target \in {"Churn", "Exited"}
    /\ is_valid = FALSE
    /\ failed = <<>>
    /\ tracking = <<>>
    /\ df = EmptyFrame
    /\ df_enc = EmptyFrame
    /\ feature_file = <<>>
    /\ fitted = [kind |-> "none", cols |-> <<>>]
    /\ y_train = <<>>
    /\ scale_pos_weight = NoWeight
    /\ FEATURE_COLS = <<>>
    /\ model = "none"
    /\ input_dict = EmptyDict
    /\ served = EmptyFrame
    /\ preds = <<>>
    /\ result = NoResult
    /\ series = <<>>
    /\ mapped = <<>>
    /\ df_again = EmptyFrame
    /\ calls = <<>>

\* load_data, validate_telco_data, log_metric("data_quality_pass")
Validate ==
    /\ pc = "start"
    /\ \E ok \in BOOLEAN :
        /\ is_valid' = ok
        /\ IF ok THEN failed' = <<>> ELSE failed' \in FailedLists
        /\ tracking' = Append(tracking,
                Logged("data_quality_pass", <<IF ok THEN "1" ELSE "0">>))
    /\ pc' = "validated"
    /\ UNCHANGED <<df, df_enc, target, feature_file, fitted, y_train, scale_pos_weight>>
    /\ UNCHANGED <<serveVars, binVars, encVars, callVars>>

\* if not is_valid: log_text(failed, "failed_expectations.json"); raise ValueError
AbortInvalid ==
    /\ pc = "validated"
    /\ ~is_valid
    /\ tracking' = Append(tracking, Logged("failed_expectations.json", failed))
    /\ pc' = "error"
    /\ UNCHANGED <<is_valid, failed, df, df_enc, target, feature_file, fitted, y_train, scale_pos_weight>>
    /\ UNCHANGED <<serveVars, binVars, encVars, callVars>>

\* the pipeline going on after a failed validation
Preprocess_fail_open ==
    /\ pc = "validated"
    /\ df' \in Frames
    /\ pc' = "preprocessed"
    /\ UNCHANGED <<is_valid, failed, tracking, df_enc, target, feature_file, fitted, y_train, scale_pos_weight>>
    /\ UNCHANGED <<serveVars, binVars, encVars, callVars>>

\* df = preprocess_data(df); df.to_csv(processed_path)
Preprocess ==
    /\ pc = "validated"
    /\ is_valid
    /\ df' \in Frames
    /\ pc' = "preprocessed"
    /\ UNCHANGED <<is_valid, failed, tracking, df_enc, target, feature_file, fitted, y_train, scale_pos_weight>>
    /\ UNCHANGED <<serveVars, binVars, encVars, callVars>>

\* if target not in df.columns: raise ValueError
TargetMissing ==
    /\ pc = "preprocessed"
    /\ target \notin Range(df.cols)
    /\ pc' = "error"
    /\ UNCHANGED <<is_valid, failed, tracking, df, df_enc, target, feature_file, fitted, y_train, scale_pos_weight>>
    /\ UNCHANGED <<serveVars, binVars, encVars, callVars>>

\* the encoding without the check of the target column before it
BuildFeatures_unchecked ==
    /\ pc = "preprocessed"
    /\ LET enc == build_features(df, target)
       IN df_enc' = BoolsToInt(enc, select_dtypes(enc, {"bool"}))
    /\ pc' = "encoded"
    /\ UNCHANGED <<is_valid, failed, tracking, df, target, feature_file, fitted, y_train, scale_pos_weight>>
    /\ UNCHANGED <<serveVars, binVars, encVars, callVars>>

\* df_enc = build_features(df, target_col=target), then its bool columns to int
BuildFeatures ==
    /\ pc = "preprocessed"
    /\ target \in Range(df.cols)
    /\ LET enc == build_features(df, target)
       IN df_enc' = BoolsToInt(enc, select_dtypes(enc, {"bool"}))
    /\ pc' = "encoded"
    /\ UNCHANGED <<is_valid, failed, tracking, df, target, feature_file, fitted, y_train, scale_pos_weight>>
    /\ UNCHANGED <<serveVars, binVars, encVars, callVars>>

\* a run that goes on to the split without persisting the schema
SaveSchema_skipped ==
    /\ pc = "encoded"
    /\ pc' = "schema_saved"
    /\ UNCHANGED <<is_valid, failed, tracking, df, df_enc, target, feature_file, fitted, y_train, scale_pos_weight>>
    /\ UNCHANGED <<serveVars, binVars, encVars, callVars>>

\* feature_cols = list(df_enc.drop(columns=[target]).columns), written to
\* feature_columns.json and logged as feature_columns.txt
SaveSchema ==
    /\ pc = "encoded"
    /\ LET feature_cols == drop(df_enc, target).cols
       IN /\ feature_file' = feature_cols
          /\ tracking' = Append(tracking, Logged("feature_columns.txt", feature_cols))
    /\ pc' = "schema_saved"
    /\ UNCHANGED <<is_valid, failed, df, df_enc, target, fitted, y_train, scale_pos_weight>>
    /\ UNCHANGED <<serveVars, binVars, encVars, callVars>>

\* X = df_enc.drop(columns=[target]); y = df_enc[target]; train_test_split;
\* scale_pos_weight; model.fit(X_train, y_train).  The split refuses to leave
\* the training set empty, and the classifier refuses a frame that still
\* holds an object column.
Fit ==
    /\ pc = "schema_saved"
    /\ LET X == drop(df_enc, target)
           y == df_enc.data[target]
       IN IF NTrain(X.rows) = 0 \/ select_dtypes(X, {"object"}) # <<>>
          THEN /\ pc' = "error"
               /\ UNCHANGED <<fitted, tracking, y_train, scale_pos_weight>>
          ELSE /\ \E rows \in TrainSplits(X.rows) :
                    /\ y_train' = Take(y, rows)
                    /\ scale_pos_weight' = ClassWeight(y, rows)
               /\ \E kind \in ModelKinds : fitted' = [kind |-> kind, cols |-> X.cols]
               /\ tracking' = Append(tracking, Logged("train_time", <<>>))
               /\ pc' = "fitted"
    /\ UNCHANGED <<is_valid, failed, df, df_enc, target, feature_file>>
    /\ UNCHANGED <<serveVars, binVars, encVars, callVars>>

\* the metrics, then mlflow.sklearn.log_model(model, artifact_path="model")
LogModel ==
    /\ pc = "fitted"
    /\ tracking' = Append(tracking, Logged("model", fitted.cols))
    /\ pc' = "done"
    /\ UNCHANGED <<is_valid, failed, df, df_enc, target, feature_file, fitted, y_train, scale_pos_weight>>
    /\ UNCHANGED <<serveVars, binVars, encVars, callVars>>

(***************************************************************************)
(* src/serving/inference.py: the module-level load, and predict            *)
(***************************************************************************)
\* FEATURE_COLS = [ln.strip() for ln in f if ln.strip()]
ReadSchema(lines) ==
    LET kept == SelectSeq(lines, LAMBDA ln : strip(ln) # "")
    IN [k \in 1..Len(kept) |-> strip(kept[k])]

\* the serving process loads the model and the schema of the finished run
ServeLoad ==
    /\ pc = "done"
    /\ model = "none"
    /\ model' = fitted.kind
    /\ FEATURE_COLS' = ReadSchema(feature_file)
    /\ UNCHANGED <<input_dict, served, preds, result>>
    /\ UNCHANGED <<pipeVars, binVars, encVars, callVars>>

\* predict reads the loaded model and schema and writes neither, so the model
\* follows one call from every loaded state
predict(d) ==
    /\ model # "none"
    /\ result = NoResult
    /\ input_dict' = d
    /\ served' = _serve_transform(DataFrame1(d), FEATURE_COLS)
    /\ preds' = model_predict(model, served')
    /\ result' = Label(preds')
    /\ UNCHANGED <<FEATURE_COLS, model>>
    /\ UNCHANGED <<pipeVars, binVars, encVars, callVars>>

\* a request carrying a row of the training data
PredictRow == \E r \in 1..df.rows : predict(RowRecord(df, r, target))

\* the same with one field changed to a level, seen in training or not
PredictChanged ==
    \E r \in 1..df.rows, v \in {"A", "B", "C", "D"} :
        predict(With(RowRecord(df, r, target), "Contract", S(v)))

\* the same with one field left out
PredictOmitted ==
    \E r \in 1..df.rows :
        \E k \in Range(RowRecord(df, r, target).keys) :
            predict(Without(RowRecord(df, r, target), k))

Next ==
    \/ Validate
    \/ AbortInvalid
    \/ Preprocess
    \/ TargetMissing
    \/ BuildFeatures
    \/ SaveSchema
    \/ Fit
    \/ LogModel
    \/ ServeLoad
    \/ PredictRow
    \/ PredictChanged
    \/ PredictOmitted

Spec == Init /\ [][Next]_vars

(***************************************************************************)
(* The serving process alone, over any loaded schema and any raw record.   *)
(***************************************************************************)
InitServe ==
    /\ pc = "serving"
    /\ target = "Churn"
    /\ is_valid = FALSE
    /\ failed = <<>>
    /\ tracking = <<>>
    /\ df = EmptyFrame
    /\ df_enc = EmptyFrame
    /\ feature_file = <<>>
    /\ fitted = [kind |-> "none", cols |-> <<>>]
    /\ y_train = <<>>
    /\ scale_pos_weight = NoWeight
    /\ FEATURE_COLS \in SeqsUpTo(SchemaNames, MaxSchema)
    /\ model \in ModelKinds
    /\ input_dict = EmptyDict
    /\ served = EmptyFrame
    /\ preds = <<>>
    /\ result = NoResult
    /\ series = <<>>
    /\ mapped = <<>>
    /\ df_again = EmptyFrame
    /\ calls = <<>>

PredictAny == \E d \in Records : predict(d)

NextServe == PredictAny

SpecServe == InitServe /\ [][NextServe]_vars

(***************************************************************************)
(* _map_binary_series alone, over any series and any order of its rows.    *)
(***************************************************************************)
SeriesCells == {S("A"), S("B"), S("C"), S("No"), S("Yes"), NaN}

InitBinary ==
    /\ pc = "binary"
    /\ target = "Churn"
    /\ is_valid = FALSE
    /\ failed = <<>>
    /\ tracking = <<>>
    /\ df = EmptyFrame
    /\ df_enc = EmptyFrame
    /\ feature_file = <<>>
    /\ fitted = [kind |-> "none", cols |-> <<>>]
    /\ y_train = <<>>
    /\ scale_pos_weight = NoWeight
    /\ FEATURE_COLS = <<>>
    /\ model = "none"
    /\ input_dict = EmptyDict
    /\ served = EmptyFrame
    /\ preds = <<>>
    /\ result = NoResult
    /\ series \in SeqsUpTo(SeriesCells, MaxRows) \ {<<>>}
    /\ mapped = <<>>
    /\ df_again = EmptyFrame
    /\ calls = <<>>

MapBinary ==
    /\ mapped = <<>>
    /\ mapped' = _map_binary_series(series)
    /\ UNCHANGED <<series, pipeVars, serveVars, encVars, callVars>>

\* two rows of the series change places; the new series is mapped afresh
Reorder ==
    /\ mapped # <<>>
    /\ \E a, b \in 1..Len(series) :
        /\ a < b
        /\ series[a] # series[b]
        /\ series' = [series EXCEPT ![a] = series[b], ![b] = series[a]]
        /\ mapped' = _map_binary_series(series')
    /\ UNCHANGED <<pipeVars, serveVars, encVars, callVars>>

NextBinary == MapBinary \/ Reorder

SpecBinary == InitBinary /\ [][NextBinary]_vars

(***************************************************************************)
(* Concurrent predict calls against the loaded model and schema.  Every    *)
(* call has its own locals; model and FEATURE_COLS are module globals.     *)
(***************************************************************************)
IdleCall ==
    [pc |-> "idle", arg |-> EmptyDict, input_dict |-> EmptyDict, df |-> EmptyFrame,
     df_enc |-> EmptyFrame, preds |-> <<>>, ret |-> NoResult]

ConcRecords ==
    {RecordOf([Partner |-> p, tenure |-> tn, Contract |-> S("B")]) :
        p \in {S("No"), S("Yes")}, tn \in {I(1), S("abc")}}

ConcSchemas == {<<"Partner", "tenure">>, <<"tenure", "Contract_B", "Partner">>}

InitConc ==
    /\ pc = "serving"
    /\ target = "Churn"
    /\ is_valid = FALSE
    /\ failed = <<>>
    /\ tracking = <<>>
    /\ df = EmptyFrame
    /\ df_enc = EmptyFrame
    /\ feature_file = <<>>
    /\ fitted = [kind |-> "none", cols |-> <<>>]
    /\ y_train = <<>>
    /\ scale_pos_weight = NoWeight
    /\ FEATURE_COLS \in ConcSchemas
    /\ model \in ModelKinds
    /\ input_dict = EmptyDict
    /\ served = EmptyFrame
    /\ preds = <<>>
    /\ result = NoResult
    /\ series = <<>>
    /\ mapped = <<>>
    /\ df_again = EmptyFrame
    /\ calls = [i \in 1..NumCalls |-> IdleCall]

\* predict(input_dict) is entered: df = pd.DataFrame([input_dict])
CallPredict(i, d) ==
    /\ calls[i].pc = "idle"
    /\ calls' = [calls EXCEPT ![i] = [@ EXCEPT !.pc = "framed", !.arg = d,
                                               !.input_dict = d, !.df = DataFrame1(d)]]
    /\ UNCHANGED <<pipeVars, serveVars, binVars, encVars>>

\* a transform that leaves its result in one place shared by all calls
Transform_shared(i) ==
    /\ calls[i].pc = "framed"
    /\ LET out == _serve_transform(calls[i].df, FEATURE_COLS)
       IN calls' = [j \in DOMAIN calls |->
                       IF j = i THEN [calls[j] EXCEPT !.pc = "encoded", !.df_enc = out]
                       ELSE IF calls[j].pc = "encoded" THEN [calls[j] EXCEPT !.df_enc = out]
                       ELSE calls[j]]
    /\ UNCHANGED <<pipeVars, serveVars, binVars, encVars>>

\* df_enc = _serve_transform(df): works on its own copy of df, reads FEATURE_COLS
Transform(i) ==
    /\ calls[i].pc = "framed"
    /\ calls' = [calls EXCEPT ![i] = [@ EXCEPT !.pc = "encoded",
                        !.df_enc = _serve_transform(calls[i].df, FEATURE_COLS)]]
    /\ UNCHANGED <<pipeVars, serveVars, binVars, encVars>>

\* preds = model.predict(df_enc)
ModelPredict(i) ==
    /\ calls[i].pc = "encoded"
    /\ calls' = [calls EXCEPT ![i] = [@ EXCEPT !.pc = "predicted",
                        !.preds = model_predict(model, calls[i].df_enc)]]
    /\ UNCHANGED <<pipeVars, serveVars, binVars, encVars>>

\* the label is returned
Return(i) ==
    /\ calls[i].pc = "predicted"
    /\ calls' = [calls EXCEPT ![i] = [@ EXCEPT !.pc = "returned",
                        !.ret = Label(calls[i].preds)]]
    /\ UNCHANGED <<pipeVars, serveVars, binVars, encVars>>

CallAny == \E i \in 1..NumCalls, d \in ConcRecords : CallPredict(i, d)
TransformAny == \E i \in 1..NumCalls : Transform(i)
ModelPredictAny == \E i \in 1..NumCalls : ModelPredict(i)
ReturnAny == \E i \in 1..NumCalls : Return(i)

NextConc == CallAny \/ TransformAny \/ ModelPredictAny \/ ReturnAny

SpecConc == InitConc /\ [][NextConc]_vars

(***************************************************************************)
(* The training part of main() on encoded frames with more rows: the       *)
(* schema, the split, the class weight, the fit and the model artifact.    *)
(***************************************************************************)
TrainColumns == <<"tenure", "Churn">>

TrainFrames ==
    UNION {
        {Frame(TrainColumns, n,
               [c \in Range(TrainColumns) |->
                   IF c = "Churn" THEN [r \in 1..n |-> I(y[r])]
                   ELSE [r \in 1..n |-> I(r % 3)]]) :
            y \in [1..n -> {0, 1}]} :
        n \in 1..MaxTargets}

InitTrain ==
    /\ pc = "encoded"
    /\ target = "Churn"
    /\ is_valid = TRUE
    /\ failed = <<>>
    /\ tracking = <<>>
    /\ df = EmptyFrame
    /\ df_enc \in TrainFrames
    /\ feature_file = <<>>
    /\ fitted = [kind |-> "none", cols |-> <<>>]
    /\ y_train = <<>>
    /\ scale_pos_weight = NoWeight
    /\ FEATURE_COLS = <<>>
    /\ model = "none"
    /\ input_dict = EmptyDict
    /\ served = EmptyFrame
    /\ preds = <<>>
    /\ result = NoResult
    /\ series = <<>>
    /\ mapped = <<>>
    /\ df_again = EmptyFrame
    /\ calls = <<>>

NextTrain == SaveSchema \/ Fit \/ LogModel

SpecTrain == InitTrain /\ [][NextTrain]_vars

(***************************************************************************)
(* build_features as a function of its frame: applied to a raw frame, and  *)
(* applied again to what it returned.                                      *)
(***************************************************************************)
EncColumns == <<"InternetService", "Partner", "tenure", "Contract", "Churn">>

InternetLevels == <<S("DSL"), S("Fiber optic"), S("No")>>

\* raw frames with two categorical columns that may have more than two
\* levels, one before and one after the binary and the numeric column
EncFrames ==
    UNION {
        {Frame(EncColumns, n,
               [c \in Range(EncColumns) |->
                   CASE c = "InternetService" ->
                            [r \in 1..n |-> IF cyc THEN InternetLevels[((r - 1) % 3) + 1]
                                            ELSE S("DSL")]
                     [] c = "Partner" ->
                            [r \in 1..n |-> IF r % 2 = first THEN S("Yes") ELSE S("No")]
                     [] c = "Contract" -> k
                     [] c = "tenure" -> [r \in 1..n |-> I(r % 3)]
                     [] OTHER -> [r \in 1..n |-> I(r % 2)]]) :
            cyc \in BOOLEAN,
            first \in {0, 1},
            k \in [1..n -> {S("A"), S("B"), S("C"), NaN}]} :
        n \in 1..MaxRows}

NumericColumns == <<"Partner", "tenure", "Churn", "Contract_B", "Contract_C">>

\* frames that are numeric throughout: 0/1 columns and a numeric column of up
\* to three values, missing values among them
NumericFrames ==
    UNION {
        {Frame(NumericColumns, n,
               [c \in Range(NumericColumns) |->
                   CASE c = "tenure" -> k
                     [] c = "Contract_C" -> [r \in 1..n |-> I(0)]
                     [] OTHER -> [r \in 1..n |-> I((r + first) % 2)]]) :
            first \in {0, 1},
            k \in [1..n -> {I(0), I(1), I(2), NaN}]} :
        n \in 1..MaxRows}

\* build_features is handed a raw frame, or a frame that is numeric already
InitEncode ==
    /\ \/ /\ pc = "raw"
          /\ df \in EncFrames
          /\ df_enc = EmptyFrame
       \/ /\ pc = "ints"
          /\ df = EmptyFrame
          /\ df_enc \in NumericFrames
    /\ target = "Churn"
    /\ is_valid = FALSE
    /\ failed = <<>>
    /\ tracking = <<>>
    /\ feature_file = <<>>
    /\ fitted = [kind |-> "none", cols |-> <<>>]
    /\ y_train = <<>>
    /\ scale_pos_weight = NoWeight
    /\ FEATURE_COLS = <<>>
    /\ model = "none"
    /\ input_dict = EmptyDict
    /\ served = EmptyFrame
    /\ preds = <<>>
    /\ result = NoResult
    /\ series = <<>>
    /\ mapped = <<>>
    /\ df_again = EmptyFrame
    /\ calls = <<>>

\* df_enc = build_features(df, target_col=target)
Encode ==
    /\ pc = "raw"
    /\ df_enc' = build_features(df, target)
    /\ pc' = "built"
    /\ UNCHANGED <<is_valid, failed, tracking, df, target, feature_file, fitted, y_train, scale_pos_weight>>
    /\ UNCHANGED <<serveVars, binVars, encVars, callVars>>

\* the caller's conversion of the boolean indicator columns to int
EncodeInts ==
    /\ pc = "built"
    /\ df_enc' = BoolsToInt(df_enc, select_dtypes(df_enc, {"bool"}))
    /\ pc' = "ints"
    /\ UNCHANGED <<is_valid, failed, tracking, df, target, feature_file, fitted, y_train, scale_pos_weight>>
    /\ UNCHANGED <<serveVars, binVars, encVars, callVars>>

\* build_features applied to a frame it has already encoded
EncodeAgain ==
    /\ pc \in {"built", "ints"}
    /\ df_again' = build_features(df_enc, target)
    /\ pc' = IF pc = "built" THEN "built_again" ELSE "ints_again"
    /\ UNCHANGED <<is_valid, failed, tracking, df, df_enc, target, feature_file, fitted, y_train, scale_pos_weight>>
    /\ UNCHANGED <<serveVars, binVars, callVars>>

NextEncode == Encode \/ EncodeInts \/ EncodeAgain

SpecEncode == InitEncode /\ [][NextEncode]_vars

(***************************************************************************)
(* Properties.                                                             *)
(***************************************************************************)
Called == result # NoResult

\* the fields of the last request, as _serve_transform names them
GivenFields == {strip(k) : k \in Range(input_dict.keys)}

LevelNames == {"A", "B", "C", "D"}

\* schema column c is derived from raw field f: the field itself, or one of
\* its one-hot indicators
DerivedFrom(c, f) == c = f \/ \E v \in LevelNames : c = DummyName(f, v)

\* C1: whatever the raw record holds (known, unknown or absent values), the
\* frame _serve_transform returns has exactly the columns of FEATURE_COLS, as
\* many and in the same order, and one row.
C1_SchemaReindex ==
    Called =>
        /\ served.cols = FEATURE_COLS
        /\ Len(served.cols) = Len(FEATURE_COLS)
        /\ DOMAIN served.data = Range(FEATURE_COLS)
        /\ served.rows = 1
        /\ \A c \in Range(FEATURE_COLS) : Len(served.data[c]) = 1

\* a call whose record holds an unknown level and lacks a field, against a
\* schema that names a column the record produces after one it does not
C1_Witness ==
    /\ Called
    /\ FEATURE_COLS = <<"Contract_B", "tenure">>
    /\ input_dict.keys = <<"tenure", "Contract">>
    /\ input_dict.val["Contract"] = S("D")
    /\ served.cols = <<"Contract_B", "tenure">>

\* C5: predict returns one of the two label strings, never the model's raw
\* output, and "Not likely to churn" exactly when the single output is 0.
C5_LabelOnly ==
    Called =>
        /\ Len(preds) = 1
        /\ result \in {S("Likely to churn"), S("Not likely to churn")}
        /\ (result = S("Not likely to churn")) <=> (preds[1] = 0)

C5_Witness ==
    /\ Called
    /\ preds = <<1>>
    /\ result = S("Likely to churn")
    /\ input_dict.keys # <<>>

\* C8: when the raw record omits a field, every schema column derived from
\* that field (the field itself, or one of its indicators) is 0 in the frame
\* _serve_transform returns.
C8_MissingFieldZero ==
    Called =>
        \A f \in {"Partner", "tenure", "Contract"} \ GivenFields :
            \A c \in Range(FEATURE_COLS) :
                DerivedFrom(c, f) =>
                    /\ c \in Range(served.cols)
                    /\ served.data[c][1] = I(0)

\* a call without the Contract field against a schema holding one of its
\* indicators, and without tenure against a schema holding tenure
C8_Witness ==
    /\ Called
    /\ input_dict.keys = <<"Partner">>
    /\ FEATURE_COLS = <<"tenure", "Contract_B">>
    /\ served.data["Contract_B"] = <<I(0)>>
    /\ served.data["tenure"] = <<I(0)>>

\* the distinct non-missing values of the series
SeriesValues == {c.s : c \in Range(dropna(series))}

HardcodedPairs == {{"Yes", "No"}, {"Male", "Female"}}

\* C10: for a series of exactly two distinct values that are no hardcoded
\* pair, _map_binary_series maps the lexicographically smaller value to 0 and
\* the larger to 1 in every row, whatever the order of the rows.
C10_RowOrderInvariant ==
    (mapped # <<>> /\ Cardinality(SeriesValues) = 2 /\ SeriesValues \notin HardcodedPairs) =>
        /\ Len(mapped) = Len(series)
        /\ \A x, y \in SeriesValues :
              StrLess(x, y) =>
                 \A k \in 1..Len(series) :
                     /\ series[k] = S(x) => mapped[k] = I(0)
                     /\ series[k] = S(y) => mapped[k] = I(1)

\* a reordered series whose larger value comes first
C10_Witness ==
    /\ mapped = <<I(1), I(0), I(1)>>
    /\ series = <<S("Yes"), S("B"), S("Yes")>>

(***************************************************************************)
(* Properties of the training pipeline.                                    *)
(***************************************************************************)
LoggedNames == {tracking[k].name : k \in 1..Len(tracking)}

\* nothing after validation has happened in this run
NothingBuilt ==
    /\ df_enc = EmptyFrame
    /\ feature_file = <<>>
    /\ fitted.kind = "none"
    /\ LoggedNames \cap {"feature_columns.txt", "train_time", "model"} = {}

\* C4: in a run whose validation failed, the run goes nowhere but to the
\* error; when it has raised, the failed rule names are the last thing in the
\* tracking store; and no preprocessing, encoding, schema persistence,
\* fitting or model persistence has happened.
C4_FailClosed ==
    (pc # "start" /\ ~is_valid) =>
        /\ pc \in {"validated", "error"}
        /\ pc = "error" =>
              /\ tracking # <<>>
              /\ tracking[Len(tracking)] = Logged("failed_expectations.json", failed)
        /\ df = EmptyFrame
        /\ NothingBuilt

C4_Witness ==
    /\ pc = "error"
    /\ ~is_valid
    /\ Len(failed) = 2
    /\ tracking = <<Logged("data_quality_pass", <<"0">>),
                    Logged("failed_expectations.json", failed)>>

\* C6: when the target column is absent from the frame, the run raises
\* before any encoding, split, fit, or persistence of a schema or a model.
C6_TargetFailFast ==
    (pc \notin {"start", "validated"} /\ target \notin Range(df.cols)) =>
        /\ pc \in {"preprocessed", "error"}
        /\ NothingBuilt

\* the run has raised on the missing target, after a passed validation
C6_Witness ==
    /\ pc = "error"
    /\ is_valid
    /\ df # EmptyFrame
    /\ target = "Exited"
    /\ target \notin Range(df.cols)

\* the distinct non-missing values of column c of the training frame
TrainValues(c) == {x.s : x \in Range(dropna(df.data[c]))}

\* the columns build_features added to those of the training frame
AddedCols == {c \in Range(df_enc.cols) : c \notin Range(df.cols)}

\* C9: a categorical column with N > 2 distinct non-missing values is
\* replaced by exactly N-1 indicators, one for each value but the
\* lexicographically first; a row has 1 in the indicator of its own value and
\* 0 in the others, so a row holding the first value has 0 in all of them.
C9_DropFirst ==
    (df_enc # EmptyFrame /\ Cardinality(TrainValues("Contract")) > 2) =>
        LET vals == TrainValues("Contract")
            first == CHOOSE x \in vals : \A y \in vals \ {x} : StrLess(x, y)
        IN /\ "Contract" \notin Range(df_enc.cols)
           /\ AddedCols = {DummyName("Contract", v) : v \in vals \ {first}}
           /\ Cardinality(AddedCols) = Cardinality(vals) - 1
           /\ \A v \in vals \ {first} :
                 \A r \in 1..df.rows :
                     df_enc.data[DummyName("Contract", v)][r].i =
                         IF df.data["Contract"][r] = S(v) THEN 1 ELSE 0

\* values {A, B, C}: exactly the indicators of B and C, both 0 in the row of A
C9_Witness ==
    /\ df_enc # EmptyFrame
    /\ df.data["Contract"] = <<S("A"), S("C"), S("B")>>
    /\ AddedCols = {"Contract_B", "Contract_C"}
    /\ df_enc.data["Contract_B"][1].i = 0
    /\ df_enc.data["Contract_C"][1].i = 0

(***************************************************************************)
(* Properties of serving against the artifacts of a training run.          *)
(***************************************************************************)
\* two cells hold the same value; True counts as 1 and False as 0
SameValue(a, b) ==
    IF a.t \in {"int", "bool"} /\ b.t \in {"int", "bool"} THEN a.i = b.i ELSE a = b

\* the frame build_features returns for the training frame
Trained == build_features(df, target)

\* the last request carried string v in field c
Carries(c, v) ==
    /\ c \in Range(input_dict.keys)
    /\ input_dict.val[c] = S(v)

\* C2: serving the raw record of a training row against the schema captured
\* from that training run gives, in every schema column, the value
\* build_features gave that row; stated for the training frames whose
\* categorical column is multi-category, where a row holding a level other
\* than the first has 1 in that level's indicator.
C2_TrainServeParity ==
    (Called /\ Cardinality(TrainValues("Contract")) > 2) =>
        \A r \in 1..df.rows :
            input_dict = RowRecord(df, r, target) =>
                \A c \in Range(FEATURE_COLS) :
                    /\ c \in Range(Trained.cols)
                    /\ SameValue(served.data[c][1], Trained.data[c][r])

\* C3: for a column training encodes as binary and a value v of it seen in
\* training, serving a record carrying v gives the 0/1 training gave v.
C3_BinaryRuleParity ==
    Called =>
        \A c \in Range(binary_cols_of(df, target)) :
            \A r \in 1..df.rows :
                (df.data[c][r].t = "str" /\ Carries(c, df.data[c][r].s)) =>
                    /\ Trained.data[c][r] \in {I(0), I(1)}
                    /\ c \in Range(served.cols)
                    /\ served.data[c][1] = Trained.data[c][r]

\* the same for the columns BINARY_MAP names, which the model draws with the
\* hardcoded pair Yes/No
BinaryMapParity ==
    Called =>
        \A c \in Range(binary_cols_of(df, target)) \cap DOMAIN BINARY_MAP :
            \A r \in 1..df.rows :
                (df.data[c][r].t = "str" /\ Carries(c, df.data[c][r].s)) =>
                    /\ c \in Range(served.cols)
                    /\ served.data[c][1] = Trained.data[c][r]

\* C7: a record whose value in a multi-category column was never seen in
\* training gets no column outside the schema, and 0 in every schema
\* indicator of that column.
C7_UnknownLevel ==
    (/\ Called
     /\ Cardinality(TrainValues("Contract")) > 2
     /\ \E v \in LevelNames \ TrainValues("Contract") : Carries("Contract", v)) =>
        /\ served.cols = FEATURE_COLS
        /\ \A v \in TrainValues("Contract") :
              DummyName("Contract", v) \in Range(FEATURE_COLS) =>
                  served.data[DummyName("Contract", v)][1] = I(0)

\* level D served against a schema holding the indicators of B and C
C7_Witness ==
    /\ Called
    /\ TrainValues("Contract") = {"A", "B", "C"}
    /\ Carries("Contract", "D")
    /\ FEATURE_COLS = <<"Partner", "tenure", "Contract_B", "Contract_C">>
    /\ served.data["Contract_B"] = <<I(0)>>
    /\ served.data["Contract_C"] = <<I(0)>>

(***************************************************************************)
(* Encoding an encoded frame again.                                        *)
(***************************************************************************)
\* the frame holds neither an object nor a boolean column
NumericOnly(f) == select_dtypes(f, {"object", "bool"}) = <<>>

Again == pc \in {"built_again", "ints_again"}

\* C11: build_features applied to an already-encoded frame, one with no
\* object and no boolean column, returns the same columns in the same order
\* with the same values.
C11_Idempotent == (Again /\ NumericOnly(df_enc)) => df_again = df_enc

\* an encoded frame with indicator columns, all numeric, was encoded again
C11_Witness ==
    /\ pc = "ints_again"
    /\ NumericOnly(df_enc)
    /\ "Contract_B" \in Range(df_enc.cols)
    /\ "InternetService_No" \in Range(df_enc.cols)
    /\ \E r \in 1..df_enc.rows : df_enc.data["tenure"][r] = I(2)
    /\ df_again = df_enc

(***************************************************************************)
(* The class weight.                                                       *)
(***************************************************************************)
Zeros(s) == Cardinality({k \in 1..Len(s) : s[k] = I(0)})
Ones(s) == Cardinality({k \in 1..Len(s) : s[k] = I(1)})

\* C12: the class weight is the number of training rows with target 0 over
\* the number of training rows with target 1, counted on the training split
\* only; with 20% positives among the training rows it equals 4.
C12_ClassWeight ==
    pc \in {"fitted", "done"} =>
        /\ Len(y_train) = NTrain(df_enc.rows)
        /\ \E rows \in SUBSET (1..df_enc.rows) :
              y_train = Take(df_enc.data[target], rows)
        /\ scale_pos_weight.num = Zeros(y_train)
        /\ scale_pos_weight.den = Ones(y_train)
        /\ (Ones(y_train) > 0 /\ 5 * Ones(y_train) = Len(y_train))
              => scale_pos_weight.num = 4 * scale_pos_weight.den

\* five training rows with one positive among them give 4 / 1, while the
\* whole frame has three positives in seven rows
C12_Witness ==
    /\ pc = "fitted"
    /\ df_enc.rows = 7
    /\ Ones(df_enc.data[target]) = 3
    /\ Len(y_train) = 5
    /\ Ones(y_train) = 1
    /\ scale_pos_weight = [num |-> 4, den |-> 1]

(***************************************************************************)
(* The output of the binary encoding.                                      *)
(***************************************************************************)
\* column c of the encoded frame holds the integers 0 and 1 only, and 0
\* wherever the raw column has a missing value
ZeroOne(c) ==
    /\ c \in Range(df_enc.cols)
    /\ \A r \in 1..df.rows :
          /\ df_enc.data[c][r] \in {I(0), I(1)}
          /\ IsNa(df.data[c][r]) => df_enc.data[c][r] = I(0)

\* C13: every non-target categorical column with exactly two distinct
\* non-missing values, missing values or not, comes out of build_features as
\* integers in {0, 1}, every missing entry as 0.
C13_BinaryInts ==
    pc = "built" => \A c \in Range(binary_cols_of(df, target)) : ZeroOne(c)

\* what does hold: a two-valued column without missing values comes out as
\* integers in {0, 1}
BinaryIntsNoMissing ==
    pc = "built" =>
        \A c \in Range(binary_cols_of(df, target)) :
            (\A r \in 1..df.rows : ~IsNa(df.data[c][r])) => ZeroOne(c)

\* what the code does to a two-valued column with a missing value: the
\* column comes out as strings, "nan" in the place of the missing value
BinaryWithMissingKept ==
    pc = "built" =>
        \A c \in Range(binary_cols_of(df, target)) :
            (\E r \in 1..df.rows : IsNa(df.data[c][r]))
                => /\ c \in Range(df_enc.cols)
                   /\ df_enc.data[c] = astype_str(df.data[c])

(***************************************************************************)
(* The column order of the encoded frame.                                  *)
(***************************************************************************)
\* the indicator names of raw column c: c_<level> for every level but the
\* first, in sorted order
Indicators(c) ==
    LET lv == SortedOf({x.s : x \in Range(dropna(df.data[c]))})
    IN [k \in 1..Len(lv) - 1 |-> DummyName(c, lv[k + 1])]

MultiCols == multi_cols_of(df, target)

\* the raw columns in their order, every multi-category column replaced
\* where it stands by its indicators
InPlaceOrder ==
    Flatten([k \in 1..Len(df.cols) |->
                IF df.cols[k] \in Range(MultiCols) THEN Indicators(df.cols[k])
                ELSE <<df.cols[k]>>])

\* the raw columns other than the multi-category ones in their order, then
\* the indicators of the multi-category columns, column by column
AppendedOrder ==
    SelectSeq(df.cols, LAMBDA c : c \notin Range(MultiCols))
        \o Flatten([k \in 1..Len(MultiCols) |-> Indicators(MultiCols[k])])

\* C14 as stated: the columns build_features returns are the original
\* columns in their original order, each binary column at its position and
\* each multi-category column replaced at its position by its indicators.
C14_InPlaceOrder == pc = "built" => df_enc.cols = InPlaceOrder

\* C14 amended: the columns build_features returns are the original columns
\* other than the multi-category ones, in their original order with each
\* binary column at its position, followed by the indicators of the
\* multi-category columns, in the order of those columns and, within a
\* column, of its sorted levels without the first.
C14_AppendedOrder == pc = "built" => df_enc.cols = AppendedOrder

\* two multi-category columns, one before and one after a binary column
C14_Witness ==
    /\ pc = "built"
    /\ MultiCols = <<"InternetService", "Contract">>
    /\ "Partner" \in Range(binary_cols_of(df, target))
    /\ df_enc.cols = <<"Partner", "tenure", "Churn",
                       "InternetService_Fiber optic", "InternetService_No",
                       "Contract_B", "Contract_C">>

(***************************************************************************)
(* The model and the schema of one run.                                    *)
(***************************************************************************)
\* the places in the run's tracking record where an artifact of that name
\* was logged
LoggedAt(name) == {k \in 1..Len(tracking) : tracking[k].name = name}

\* the ordered non-target columns of the encoded frame
FittedOn == SelectSeq(df_enc.cols, LAMBDA c : c # target)

\* C15: in every run a model is persisted only after a feature schema has
\* been persisted in that run, and the persisted schema, in the file and in
\* the tracking record, is the ordered list of non-target columns of the
\* encoded frame the model was fitted on.
C15_ModelSchemaBinding ==
    \A k \in LoggedAt("model") :
        /\ \E j \in LoggedAt("feature_columns.txt") :
              /\ j < k
              /\ tracking[j].text = FittedOn
        /\ \A j \in LoggedAt("feature_columns.txt") : tracking[j].text = FittedOn
        /\ feature_file = FittedOn
        /\ fitted.kind # "none"
        /\ fitted.cols = FittedOn

\* a run that persisted a model fitted on one-hot indicators
C15_Witness ==
    /\ pc = "done"
    /\ LoggedAt("model") # {}
    /\ feature_file = <<"Partner", "tenure", "Contract_B", "Contract_C">>
    /\ fitted.cols = feature_file

(***************************************************************************)
(* Concurrent serving.                                                     *)
(***************************************************************************)
\* what predict returns for record d when it runs alone
Alone(d) == Label(model_predict(model, _serve_transform(DataFrame1(d), FEATURE_COLS)))

\* the caller's record is as it was passed, and a call that has returned
\* has returned what it returns alone
CallsIndependent ==
    \A i \in DOMAIN calls :
        /\ calls[i].pc # "idle" => calls[i].input_dict = calls[i].arg
        /\ calls[i].pc = "returned" => calls[i].ret = Alone(calls[i].arg)

\* no step of a call changes the loaded model or the schema
GlobalsKept == model' = model /\ FEATURE_COLS' = FEATURE_COLS

\* C16: after the load no step of predict or _serve_transform modifies the
\* model, FEATURE_COLS or the caller's input, and under every interleaving
\* of concurrent calls each call returns what it returns when run alone on
\* the same record.
C16_StatelessServing == []CallsIndependent /\ [][GlobalsKept]_vars

\* two calls with different records each returned its own result while the
\* other was in progress between its transform and its return
C16_Witness ==
    /\ \A i \in DOMAIN calls : calls[i].pc = "returned"
    /\ calls[1].arg # calls[2].arg
    /\ calls[1].ret # calls[2].ret
    /\ calls[1].ret = Alone(calls[1].arg)
    /\ calls[2].ret = Alone(calls[2].arg)

====
